---- MODULE Spec2Model ----
(***************************************************************************)
(* Model of lib/query/token-visitors.js: a mutable token list              *)
(* (TokenListVisitor), item cursors (TokenItemVisitor) and range cursors   *)
(* (TokenRangeVisitor) that navigate and splice it, and the lexer's merge   *)
(* of adjacent primitives into compound operators.                         *)
(*                                                                         *)
(* Indices are the 0-based JavaScript indices; TLA+ sequences are 1-based, *)
(* so the token at JavaScript index i is toks[i + 1].                      *)
(***************************************************************************)
EXTENDS Integers, Sequences, FiniteSets

VARIABLES
    tokens,     \* TokenListVisitor.tokens
    operators,  \* the table required from ../operators (set of known spellings)
    this,       \* the receiver of the last call, as the call left it
    ret,        \* what the last call returned (or that it threw)
    op,         \* the last call: its name, arguments and the state it began in
    input,      \* lexer: primitives the character-level tokenizer has yet to deliver
    emitted,    \* lexer: the local array `tokens` of tokenize()
    lex         \* lexer: the last callback invocation and the running counts

vars == <<tokens, operators, this, ret, op, input, emitted, lex>>

----------------------------------------------------------------------------
(* Bounds of the model.                                                    *)

MaxLen == 3
MaxPayload == 2
MaxPrims == 3

(* Token alphabet of the token list and of the arguments.                  *)
Tok == {"and", "AND", "<="}

(* Tokens of an array payload; "" is an empty entry that compact() drops.  *)
PayloadTok == {"<=", ""}

(* Primitive tokens the character-level tokenizer delivers.                *)
Prim == {"<", "=", ">", "is", "not"}

(* Spellings that may be keys of the operator table.                       *)
OperatorCandidates == {"<=", "<=>", "<>", "is not", "=>"}

(* The operator table used while the cursor operations are explored.       *)
DefaultOperators == {"<=", "<>", "is not"}

----------------------------------------------------------------------------
(* Values.                                                                 *)

Null == [kind |-> "null"]
Undefined == [kind |-> "undefined"]
Thrown == [kind |-> "error"]
TheList == [kind |-> "list"]
Item(i) == [kind |-> "item", index |-> i]
Range(s, e) == [kind |-> "range", startIndex |-> s, endIndex |-> e]
Text(s) == [kind |-> "text", text |-> s]

Min(a, b) == IF a < b THEN a ELSE b
Max(a, b) == IF a > b THEN a ELSE b

(* Sequences over S of length at most n.                                   *)
SeqsUpTo(S, n) == UNION {[1..k -> S] : k \in 0..n}

----------------------------------------------------------------------------
(* Library functions, as the code uses them.                               *)

(* lodash compact: drops the falsy entries; of strings, the empty one.     *)
compact(arr) == SelectSeq(arr, LAMBDA t : t # "")

(* Array.prototype.join.                                                   *)
RECURSIVE join(_, _)
join(arr, sep) ==
    IF arr = <<>> THEN ""
    ELSE IF Len(arr) = 1 THEN arr[1]
    ELSE arr[1] \o sep \o join(Tail(arr), sep)

(* An index argument of slice and splice: a negative one counts from the   *)
(* end, and the result is clamped to 0..len.                               *)
relativeIndex(k, len) == IF k < 0 THEN Max(len + k, 0) ELSE Min(k, len)

(* Array.prototype.slice(from, to).                                        *)
slice(arr, from, to) ==
    SubSeq(arr, relativeIndex(from, Len(arr)) + 1, relativeIndex(to, Len(arr)))

(* Array.prototype.splice(start, deleteCount, ...items): the array after   *)
(* the call. A negative start counts from the end; both are clamped.       *)
splice(arr, start, deleteCount, items) ==
    LET len == Len(arr)
        from == relativeIndex(start, len)
        dc == Min(Max(deleteCount, 0), len - from)
    IN  SubSeq(arr, 1, from) \o items \o SubSeq(arr, from + dc + 1, len)

(* String.prototype.toLowerCase on the alphabet.                           *)
toLowerCase(s) == IF s = "AND" THEN "and" ELSE s

----------------------------------------------------------------------------
(* Argument values.                                                        *)

(* An array of tokens, a raw string (given by the primitives the           *)
(* character-level tokenizer splits it into) and a function.               *)
Array(items) == [kind |-> "array", items |-> items]
String(prims) == [kind |-> "string", prims |-> prims]
Function(f) == [kind |-> "function", f |-> f]

isString(v) == v.kind = "string"
isFunction(v) == v.kind = "function"
isNil(v) == v.kind \in {"undefined", "null"}

(* A selection predicate (token, index) -> boolean: true of the tokens in  *)
(* toks and at the indices in idxs.                                        *)
Predicate(toks, idxs) == [kind |-> "function", toks |-> toks, idxs |-> idxs]

(* A string given where a predicate is expected, and a value that is       *)
(* neither a string nor a function.                                        *)
StringPredicate(s) == [kind |-> "string", value |-> s]
NumberPredicate == [kind |-> "number"]

----------------------------------------------------------------------------
(* TokenListVisitor.                                                       *)

(* The character-level tokenizer (tokenize-this) on one word and on words  *)
(* separated by single spaces: it splits at white space and at the bare    *)
(* characters of an operator, and delivers the primitives in order.        *)
primitivesOf(word) ==
    CASE word = "is not" -> <<"is", "not">>
      [] word = "<=" -> <<"<", "=">>
      [] OTHER -> <<word>>

RECURSIVE tokenizeThis(_)
tokenizeThis(words) ==
    IF words = <<>> THEN <<>>
    ELSE primitivesOf(Head(words)) \o tokenizeThis(Tail(words))

(* The callback pushing the merged spelling instead of overwriting the     *)
(* last entry.                                                             *)
tokenizeCallbackPushesMerged(out, token, ops) ==
    IF Len(out) > 0
    THEN LET last == out[Len(out)]
             combined1 == last \o token
             combined2 == last \o " " \o token
         IN  IF combined1 \in ops
             THEN Append(out, combined1)
             ELSE IF combined2 \in ops
                  THEN Append(out, combined2)
                  ELSE Append(out, token)
    ELSE Append(out, token)

(* The callback combining the new primitive with the last entry in the     *)
(* wrong order.                                                            *)
tokenizeCallbackReversed(out, token, ops) ==
    IF Len(out) > 0
    THEN LET last == out[Len(out)]
             combined1 == token \o last
             combined2 == token \o " " \o last
         IN  IF combined1 \in ops
             THEN [out EXCEPT ![Len(out)] = combined1]
             ELSE IF combined2 \in ops
                  THEN [out EXCEPT ![Len(out)] = combined2]
                  ELSE Append(out, token)
    ELSE Append(out, token)

(* The callback of tokenize(): `out` is the local array, `token` the new   *)
(* primitive, `ops` the operator table. Returns the array afterwards.      *)
tokenizeCallback(out, token, ops) ==
    IF Len(out) > 0
    THEN LET last == out[Len(out)]
             combined1 == last \o token
             combined2 == last \o " " \o token
         IN  IF combined1 \in ops
             THEN [out EXCEPT ![Len(out)] = combined1]
             ELSE IF combined2 \in ops
                  THEN [out EXCEPT ![Len(out)] = combined2]
                  ELSE Append(out, token)
    ELSE Append(out, token)

(* tokenize(rawStr): the callback folded over the primitives, from [].     *)
RECURSIVE tokenizeFrom(_, _, _)
tokenizeFrom(out, prims, ops) ==
    IF prims = <<>> THEN out
    ELSE tokenizeFrom(tokenizeCallback(out, Head(prims), ops), Tail(prims), ops)

tokenize(prims, ops) == tokenizeFrom(<<>>, prims, ops)

(* toString().                                                             *)
toString(toks) == join(compact(toks), " ")

(* The test with the case-sensitivity flag ignored: always exact.          *)
tokenMatchesExactly(token, value, isCaseSensitive) == token = value

(* The test findToken hands to findIndex.                                  *)
tokenMatches(token, value, isCaseSensitive) ==
    IF isCaseSensitive
    THEN token = value
    ELSE toLowerCase(token) = toLowerCase(value)

(* lodash findIndex(array, test): the first 0-based index from i on whose  *)
(* entry passes the test, or -1.                                           *)
RECURSIVE findIndexFrom(_, _, _, _)
findIndexFrom(arr, value, isCaseSensitive, i) ==
    IF i >= Len(arr) THEN 0 - 1
    ELSE IF tokenMatches(arr[i + 1], value, isCaseSensitive) THEN i
    ELSE findIndexFrom(arr, value, isCaseSensitive, i + 1)

(* findToken(value, isCaseSensitive, startIdx). The call to findIndex      *)
(* passes the array and the test only, so the scan starts at index 0       *)
(* whatever startIdx is.                                                   *)
findToken(toks, value, isCaseSensitive, startIdx) ==
    LET idx == findIndexFrom(toks, value, isCaseSensitive, 0)
    IN  IF idx >= 0 THEN Item(idx) ELSE Null

(* first() and last().                                                     *)
listFirst(toks) == Item(0)
listLast(toks) == Item(Len(toks) - 1)

(* _normalizeTokenList(tokenList): compact(castArray(tokenList)). A value  *)
(* that is no array is cast to a one-element array; of the values that     *)
(* reach this point only undefined is no array, and compact drops it.      *)
normalizeTokenList(tokenList) ==
    IF tokenList.kind = "array" THEN compact(tokenList.items) ELSE <<>>

(* The three splicing primitives: the token array after the call and the   *)
(* value returned.                                                         *)
replaceRange(toks, startIdx, endIdx, tokenList) ==
    LET normalized == normalizeTokenList(tokenList)
    IN  [tokens |-> splice(toks, startIdx, endIdx - startIdx, normalized),
         ret |-> Range(startIdx, Len(normalized))]

(* _replaceAtIndex that splices without removing the token at i.           *)
replaceAtIndexKeepsOld(toks, i, tokenList) ==
    LET normalized == normalizeTokenList(tokenList)
    IN  [tokens |-> splice(toks, i, 0, normalized),
         ret |-> Range(i, Len(normalized))]

replaceAtIndex(toks, i, tokenList) ==
    LET normalized == normalizeTokenList(tokenList)
    IN  [tokens |-> splice(toks, i, 1, normalized),
         ret |-> Range(i, Len(normalized))]

(* _insertAtIndex that splices over the token at i.                        *)
insertAtIndexOverwrites(toks, i, tokenList) ==
    LET normalized == normalizeTokenList(tokenList)
    IN  IF Len(normalized) = 0
        THEN [tokens |-> toks, ret |-> Null]
        ELSE [tokens |-> splice(toks, i, 1, normalized),
              ret |-> Range(i, Len(normalized))]

insertAtIndex(toks, i, tokenList) ==
    LET normalized == normalizeTokenList(tokenList)
    IN  IF Len(normalized) = 0
        THEN [tokens |-> toks, ret |-> Null]
        ELSE [tokens |-> splice(toks, i, 0, normalized),
              ret |-> Range(i, Len(normalized))]

(* predicate(token, i) for a function value.                               *)
callPredicate(predicate, token, i) ==
    token \in predicate.toks \/ i \in predicate.idxs

(* The loop of _selectRange going on after a token fails the predicate.    *)
RECURSIVE selectLoopNoBreak(_, _, _, _, _, _)
selectLoopNoBreak(toks, start, step, predicate, i, range) ==
    IF ~(i < Len(toks) /\ i >= 0)
    THEN range
    ELSE IF ~isFunction(predicate)
    THEN [range EXCEPT !.threw = TRUE]
    ELSE IF callPredicate(predicate, toks[i + 1], i)
    THEN selectLoopNoBreak(toks, start, step, predicate, i + step,
             [range EXCEPT !.start = IF i <= start THEN <<i>> ELSE @,
                           !.end = IF i >= start THEN <<i + 1>> ELSE @])
    ELSE selectLoopNoBreak(toks, start, step, predicate, i + step, range)

(* _selectRange(start, step, predicate). range.start and range.end are     *)
(* <<>> while null. Calling a predicate that is no function throws, which  *)
(* happens at the first index the loop visits.                             *)
RECURSIVE selectLoop(_, _, _, _, _, _)
selectLoop(toks, start, step, predicate, i, range) ==
    IF ~(i < Len(toks) /\ i >= 0)
    THEN range
    ELSE IF ~isFunction(predicate)
    THEN [range EXCEPT !.threw = TRUE]
    ELSE IF callPredicate(predicate, toks[i + 1], i)
    THEN selectLoop(toks, start, step, predicate, i + step,
             [range EXCEPT !.start = IF i <= start THEN <<i>> ELSE @,
                           !.end = IF i >= start THEN <<i + 1>> ELSE @])
    ELSE range

selectRange(toks, start, step, predicate) ==
    LET range == selectLoop(toks, start, step, predicate, start,
                            [start |-> <<>>, end |-> <<>>, threw |-> FALSE])
    IN  IF range.threw THEN Thrown
        ELSE IF range.start = <<>> \/ range.end = <<>> THEN Null
        ELSE Range(range.start[1], range.end[1])

----------------------------------------------------------------------------
(* TokenItemVisitor. Each method gives the token array after the call,     *)
(* the receiver after the call and the value returned.                     *)

Outcome(toks, receiver, result) ==
    [tokens |-> toks, this |-> receiver, ret |-> result]

(* lodash isEmpty, of an array or of undefined.                            *)
isEmpty(v) == isNil(v) \/ (v.kind = "array" /\ v.items = <<>>)

(* lodash cloneDeep of an array of strings: a new array with the same      *)
(* entries. `live` tells whether the array is this.tokens itself, so that  *)
(* writing to it writes to the token list.                                 *)
cloneDeep(arr) == [items |-> arr, live |-> FALSE]

(* What the replacement functions do to the array they are handed:         *)
(* "overwrite" sets every entry, "push" adds one, "clear" removes all; the *)
(* others leave it alone.                                                  *)
scribble(f, items) ==
    CASE f = "overwrite" -> [j \in 1..Len(items) |-> "<="]
      [] f = "push" -> Append(items, "<=")
      [] f = "clear" -> <<>>
      [] OTHER -> items

(* What a replacement function returns for the copy it is handed: "keep"   *)
(* and "overwrite" return their argument, "const" and "push" an array of   *)
(* their own, "text" a string, "nothing" and "clear" undefined.            *)
callReplacement(replacement, copy) ==
    CASE replacement.f = "keep" -> Array(copy)
      [] replacement.f = "overwrite" -> Array(scribble(replacement.f, copy))
      [] replacement.f = "const" -> Array(<<"<=">>)
      [] replacement.f = "push" -> Array(<<"<=">>)
      [] replacement.f = "text" -> String(<<"<", "=">>)
      [] OTHER -> Undefined

(* this.tokens once the replacement function has run: changed only if the  *)
(* function was handed this.tokens itself.                                 *)
tokensAfterCall(replacement, argument, toks) ==
    IF isFunction(replacement) /\ argument.live
    THEN scribble(replacement.f, argument.items)
    ELSE toks

(* What replace hands the function: for an item a copy of the token (a     *)
(* string, which no function can change; a missing token is undefined,     *)
(* which compact drops from what "keep" returns), for a range a deep copy  *)
(* of the slice.                                                           *)
itemArgument(toks, index) ==
    cloneDeep(IF 0 <= index /\ index < Len(toks)
              THEN <<toks[index + 1]>> ELSE <<>>)

(* The range's replace handing this.tokens itself to the function.         *)
rangeArgumentIsLive(toks, startIndex, endIndex) ==
    [items |-> toks, live |-> TRUE]

rangeArgument(toks, startIndex, endIndex) ==
    cloneDeep(slice(toks, startIndex, endIndex))

(* token().                                                                *)
itemToken(toks, index) ==
    IF 0 <= index /\ index < Len(toks) THEN Text(toks[index + 1]) ELSE Undefined

(* peek(count).                                                            *)
peek(toks, index, count) ==
    Text(join(slice(toks, index, index + count), " "))

(* next advancing the cursor's own index also when it is given a token.    *)
nextAlwaysAdvances(toks, index, token, isCaseSensitive) ==
    IF ~isNil(token)
    THEN Outcome(toks, Item(index + 1),
                 findToken(toks, token.text, isCaseSensitive, index + 1))
    ELSE Outcome(toks, Item(index + 1), Item(index + 1))

(* next(token, isCaseSensitive).                                           *)
next(toks, index, token, isCaseSensitive) ==
    IF ~isNil(token)
    THEN Outcome(toks, Item(index),
                 findToken(toks, token.text, isCaseSensitive, index + 1))
    ELSE Outcome(toks, Item(index + 1), Item(index + 1))

(* replace(replacement) of an item.                                        *)
itemReplace(toks, index, replacement, ops) ==
    LET token == itemArgument(toks, index)
        called == IF isFunction(replacement)
                  THEN callReplacement(replacement, token.items)
                  ELSE replacement
        tokenized == IF isString(called)
                     THEN Array(tokenize(called.prims, ops)) ELSE called
        done == replaceAtIndex(tokensAfterCall(replacement, token, toks),
                               index, tokenized)
    IN  Outcome(done.tokens, Item(index), done.ret)

(* insertBefore without the isEmpty check.                                 *)
insertBeforeUnchecked(toks, index, payload, ops) ==
    LET tokenized == IF isString(payload)
                     THEN Array(tokenize(payload.prims, ops)) ELSE payload
        done == insertAtIndex(toks, index, tokenized)
    IN  Outcome(done.tokens, Item(index), done.ret)

(* insertBefore(tokens) and insertAfter(tokens).                           *)
insertBefore(toks, index, payload, ops) ==
    LET tokenized == IF isString(payload)
                     THEN Array(tokenize(payload.prims, ops)) ELSE payload
        done == insertAtIndex(toks, index, tokenized)
    IN  IF isEmpty(tokenized)
        THEN Outcome(toks, Item(index), Thrown)
        ELSE Outcome(done.tokens, Item(index), done.ret)

insertAfter(toks, index, payload, ops) ==
    LET tokenized == IF isString(payload)
                     THEN Array(tokenize(payload.prims, ops)) ELSE payload
        done == insertAtIndex(toks, index + 1, tokenized)
    IN  IF isEmpty(tokenized)
        THEN Outcome(toks, Item(index), Thrown)
        ELSE Outcome(done.tokens, Item(index), done.ret)

(* takeOneAt testing i >= index.                                           *)
takeOneAtOrLater(index) == Predicate({}, index..(index + MaxLen + 1))

(* takeOneAt(index).                                                       *)
takeOneAt(index) == Predicate({}, {index})

(* _normalizeSelectionPredicate(predicate, targetIndex); Thrown when it    *)
(* throws.                                                                 *)
normalizeSelectionPredicate(predicate, targetIndex) ==
    IF isNil(predicate) THEN takeOneAt(targetIndex)
    ELSE IF isString(predicate) THEN Predicate({predicate.value}, {})
    ELSE IF isFunction(predicate) THEN predicate
    ELSE Thrown

(* select(until), selectPrev(until) and selectNext(until).                 *)
select(toks, index, until) ==
    LET predicate == normalizeSelectionPredicate(until, index)
    IN  IF predicate = Thrown THEN Thrown
        ELSE selectRange(toks, index, 1, predicate)

selectPrev(toks, index, until) ==
    LET start == index - 1
        predicate == normalizeSelectionPredicate(until, start)
    IN  IF predicate = Thrown THEN Thrown
        ELSE selectRange(toks, start, 0 - 1, predicate)

selectNext(toks, index, until) ==
    LET start == index + 1
        predicate == normalizeSelectionPredicate(until, start)
    IN  IF predicate = Thrown THEN Thrown
        ELSE selectRange(toks, start, 1, predicate)

----------------------------------------------------------------------------
(* TokenRangeVisitor.                                                      *)

rangeFirst(startIndex, endIndex) == Item(startIndex)
rangeLast(startIndex, endIndex) == Item(endIndex)

(* extendLeft and extendRight returning the range _selectRange found,      *)
(* without overwriting its far edge.                                       *)
extendLeftKeepsFoundEnd(toks, startIndex, endIndex, until) ==
    selectRange(toks, startIndex, 0 - 1, until)

extendRightKeepsFoundStart(toks, startIndex, endIndex, until) ==
    selectRange(toks, endIndex, 1, until)

(* extendLeft(until) and extendRight(until): `until` goes to _selectRange  *)
(* as it is.                                                               *)
extendLeft(toks, startIndex, endIndex, until) ==
    LET rangeVisitor == selectRange(toks, startIndex, 0 - 1, until)
    IN  IF rangeVisitor.kind = "range"
        THEN Range(rangeVisitor.startIndex, endIndex)
        ELSE rangeVisitor

extendRight(toks, startIndex, endIndex, until) ==
    LET rangeVisitor == selectRange(toks, endIndex, 1, until)
    IN  IF rangeVisitor.kind = "range"
        THEN Range(startIndex, rangeVisitor.endIndex)
        ELSE rangeVisitor

(* replace(replacement) of a range.                                        *)
rangeReplace(toks, startIndex, endIndex, replacement, ops) ==
    LET copy == rangeArgument(toks, startIndex, endIndex)
        called == IF isFunction(replacement)
                  THEN callReplacement(replacement, copy.items)
                  ELSE replacement
        tokenized == IF isString(called)
                     THEN Array(tokenize(called.prims, ops)) ELSE called
        done == replaceRange(tokensAfterCall(replacement, copy, toks),
                             startIndex, endIndex, tokenized)
    IN  Outcome(done.tokens, Range(startIndex, endIndex), done.ret)

----------------------------------------------------------------------------
(* Arguments the calls are explored with.                                  *)

ArrayPayloads == {Array(a) : a \in SeqsUpTo(PayloadTok, MaxPayload)}
StringPayloads == {String(<<>>), String(<<"<", "=">>)}
Replacements ==
    ArrayPayloads \cup StringPayloads \cup {Undefined}
        \cup {Function(f) : f \in {"keep", "const", "text", "nothing",
                                   "overwrite", "push", "clear"}}
InsertPayloads == ArrayPayloads \cup StringPayloads \cup {Undefined}
Untils ==
    {Undefined, StringPredicate("and"), NumberPredicate,
     Predicate({"<="}, {}), Predicate({"and", "AND"}, {}), Predicate({}, {0, 1})}

(* The cursors a caller holds: the receiver of the last call and what the  *)
(* last call returned.                                                     *)
ItemCursors == {c \in {this, ret} : c.kind = "item"}
RangeCursors == {c \in {this, ret} : c.kind = "range"}

(* Where the receiver of a replace on a range came from, when it is the    *)
(* range that a replace of an in-bounds range by an array with a non-empty *)
(* token has just returned: the list and the range of that first replace.  *)
Origin(name, receiver) ==
    IF /\ name = "rangeReplace"
       /\ receiver = ret
       /\ op.name = "rangeReplace"
       /\ op.arg.kind = "array"
       /\ compact(op.arg.items) # <<>>
       /\ 0 <= op.recv.startIndex
       /\ op.recv.startIndex <= op.recv.endIndex
       /\ op.recv.endIndex <= Len(op.pre)
    THEN [kind |-> "replaced", pre |-> op.pre,
          startIndex |-> op.recv.startIndex, endIndex |-> op.recv.endIndex]
    ELSE Null

Call(name, receiver, arg) ==
    [name |-> name, recv |-> receiver, arg |-> arg, pre |-> tokens,
     from |-> Origin(name, receiver)]

(* A call's effect on the state; the token list grows within MaxLen.       *)
Effect(outcome) ==
    /\ Len(outcome.tokens) > Len(tokens) => Len(outcome.tokens) <= MaxLen
    /\ tokens' = outcome.tokens
    /\ this' = outcome.this
    /\ ret' = outcome.ret
    /\ UNCHANGED <<operators, input, emitted, lex>>

----------------------------------------------------------------------------
(* The state after `new TokenListVisitor(tokens)` with an array.           *)

Init ==
    /\ tokens \in SeqsUpTo(Tok, MaxLen)
    /\ operators = DefaultOperators
    /\ this = TheList
    /\ ret = Undefined
    /\ op = [name |-> "constructor", recv |-> TheList, arg |-> Undefined,
             pre |-> tokens]
    /\ input = <<>>
    /\ emitted = <<>>
    /\ lex = [name |-> "idle"]

(* Calls on the token list.                                                *)

ListToString ==
    /\ op' = Call("toString", TheList, Undefined)
    /\ Effect(Outcome(tokens, TheList, Text(toString(tokens))))

FindToken ==
    \E value \in Tok, isCaseSensitive \in BOOLEAN, startIdx \in 0..Len(tokens) :
        /\ op' = Call("findToken", TheList,
                      [value |-> value, isCaseSensitive |-> isCaseSensitive,
                       startIdx |-> startIdx])
        /\ Effect(Outcome(tokens, TheList,
                          findToken(tokens, value, isCaseSensitive, startIdx)))

ListFirst ==
    /\ op' = Call("first", TheList, Undefined)
    /\ Effect(Outcome(tokens, TheList, listFirst(tokens)))

ListLast ==
    /\ op' = Call("last", TheList, Undefined)
    /\ Effect(Outcome(tokens, TheList, listLast(tokens)))

(* Calls on an item cursor.                                                *)

ItemToken ==
    \E c \in ItemCursors :
        /\ op' = Call("token", c, Undefined)
        /\ Effect(Outcome(tokens, c, itemToken(tokens, c.index)))

Peek ==
    \E c \in ItemCursors, count \in 1..2 :
        /\ op' = Call("peek", c, [count |-> count])
        /\ Effect(Outcome(tokens, c, peek(tokens, c.index, count)))

ItemNext ==
    \E c \in ItemCursors, token \in {Undefined} \cup {Text(t) : t \in Tok},
       isCaseSensitive \in BOOLEAN :
        /\ isNil(token) => (c.index < MaxLen /\ ~isCaseSensitive)
        /\ op' = Call("next", c,
                      [token |-> token, isCaseSensitive |-> isCaseSensitive])
        /\ Effect(next(tokens, c.index, token, isCaseSensitive))

ItemReplace ==
    \E c \in ItemCursors, replacement \in Replacements :
        /\ op' = Call("replace", c, replacement)
        /\ Effect(itemReplace(tokens, c.index, replacement, operators))

InsertBefore ==
    \E c \in ItemCursors, payload \in InsertPayloads :
        /\ op' = Call("insertBefore", c, payload)
        /\ Effect(insertBefore(tokens, c.index, payload, operators))

InsertAfter ==
    \E c \in ItemCursors, payload \in InsertPayloads :
        /\ op' = Call("insertAfter", c, payload)
        /\ Effect(insertAfter(tokens, c.index, payload, operators))

Select ==
    \E c \in ItemCursors, until \in Untils :
        /\ op' = Call("select", c, until)
        /\ Effect(Outcome(tokens, c, select(tokens, c.index, until)))

SelectPrev ==
    \E c \in ItemCursors, until \in Untils :
        /\ op' = Call("selectPrev", c, until)
        /\ Effect(Outcome(tokens, c, selectPrev(tokens, c.index, until)))

SelectNext ==
    \E c \in ItemCursors, until \in Untils :
        /\ op' = Call("selectNext", c, until)
        /\ Effect(Outcome(tokens, c, selectNext(tokens, c.index, until)))

(* Calls on a range cursor.                                                *)

RangeFirst ==
    \E c \in RangeCursors :
        /\ op' = Call("rangeFirst", c, Undefined)
        /\ Effect(Outcome(tokens, c, rangeFirst(c.startIndex, c.endIndex)))

RangeLast ==
    \E c \in RangeCursors :
        /\ op' = Call("rangeLast", c, Undefined)
        /\ Effect(Outcome(tokens, c, rangeLast(c.startIndex, c.endIndex)))

ExtendLeft ==
    \E c \in RangeCursors, until \in Untils :
        /\ op' = Call("extendLeft", c, until)
        /\ Effect(Outcome(tokens, c,
                          extendLeft(tokens, c.startIndex, c.endIndex, until)))

ExtendRight ==
    \E c \in RangeCursors, until \in Untils :
        /\ op' = Call("extendRight", c, until)
        /\ Effect(Outcome(tokens, c,
                          extendRight(tokens, c.startIndex, c.endIndex, until)))

RangeReplace ==
    \E c \in RangeCursors, replacement \in Replacements :
        /\ op' = Call("rangeReplace", c, replacement)
        /\ Effect(rangeReplace(tokens, c.startIndex, c.endIndex, replacement,
                               operators))

Next ==
    \/ ListToString
    \/ FindToken
    \/ ListFirst
    \/ ListLast
    \/ ItemToken
    \/ Peek
    \/ ItemNext
    \/ ItemReplace
    \/ InsertBefore
    \/ InsertAfter
    \/ Select
    \/ SelectPrev
    \/ SelectNext
    \/ RangeFirst
    \/ RangeLast
    \/ ExtendLeft
    \/ ExtendRight
    \/ RangeReplace

Spec == Init /\ [][Next]_vars

----------------------------------------------------------------------------
(* The constructor given a raw string: tokenize() runs the callback once   *)
(* for each primitive, then the result becomes this.tokens.                *)

InitLex ==
    /\ operators \in SUBSET OperatorCandidates
    /\ input \in SeqsUpTo(Prim, MaxPrims)
    /\ emitted = <<>>
    /\ lex = [name |-> "tokenize", raw |-> input, token |-> "",
              before |-> <<>>, delivered |-> 0, merges |-> 0]
    /\ tokens = <<>>
    /\ this = TheList
    /\ ret = Undefined
    /\ op = [name |-> "constructor", recv |-> TheList, arg |-> Undefined,
             pre |-> <<>>]

(* One invocation of the callback. lex.merges counts the invocations that  *)
(* leave through the `return` inside the loop.                             *)
TokenizeCallback ==
    /\ lex.name \in {"tokenize", "callback"}
    /\ input # <<>>
    /\ LET token == Head(input)
           returnsEarly ==
               /\ Len(emitted) > 0
               /\ \E combined \in {emitted[Len(emitted)] \o token,
                                   emitted[Len(emitted)] \o " " \o token} :
                      combined \in operators
       IN  /\ emitted' = tokenizeCallback(emitted, token, operators)
           /\ lex' = [lex EXCEPT !.name = "callback",
                                 !.token = token,
                                 !.before = emitted,
                                 !.delivered = @ + 1,
                                 !.merges = IF returnsEarly THEN @ + 1 ELSE @]
    /\ input' = Tail(input)
    /\ UNCHANGED <<tokens, operators, this, ret, op>>

(* tokenize() returns and the constructor stores the array.                *)
Construct ==
    /\ lex.name \in {"tokenize", "callback"}
    /\ input = <<>>
    /\ tokens' = emitted
    /\ lex' = [lex EXCEPT !.name = "constructed"]
    /\ UNCHANGED <<operators, this, ret, op, input, emitted>>

NextLex ==
    \/ TokenizeCallback
    \/ Construct

SpecLex == InitLex /\ [][NextLex]_vars

----------------------------------------------------------------------------
(* A token list written out and read back: a list is constructed from the  *)
(* given tokens joined by single spaces, serialized with toString, and a   *)
(* second list is constructed from that string.                            *)

(* Tokens a given list is made of: primitives and one spelling with a      *)
(* space in it.                                                            *)
Word == Prim \cup {"is not"}

InitRoundTrip ==
    /\ operators \in SUBSET {"<=", "<>", "is not"}
    /\ \E given \in SeqsUpTo(Word, MaxPrims) :
           /\ input = tokenizeThis(given)
           /\ lex = [name |-> "tokenize", raw |-> input, token |-> "",
                     before |-> <<>>, delivered |-> 0, merges |-> 0,
                     given |-> given, pass |-> 1]
    /\ emitted = <<>>
    /\ tokens = <<>>
    /\ this = TheList
    /\ ret = Undefined
    /\ op = [name |-> "constructor", recv |-> TheList, arg |-> Undefined,
             pre |-> <<>>]

(* toString() of the first list, and the constructor called with it.       *)
Reconstruct ==
    /\ lex.name = "constructed"
    /\ lex.pass = 1
    /\ ret' = Text(toString(tokens))
    /\ op' = Call("toString", TheList, Undefined)
    /\ input' = tokenizeThis(compact(tokens))
    /\ emitted' = <<>>
    /\ lex' = [lex EXCEPT !.name = "tokenize", !.raw = input', !.token = "",
                          !.before = <<>>, !.delivered = 0, !.merges = 0,
                          !.pass = 2]
    /\ UNCHANGED <<tokens, operators, this>>

NextRoundTrip ==
    \/ TokenizeCallback
    \/ Construct
    \/ Reconstruct

SpecRoundTrip == InitRoundTrip /\ [][NextRoundTrip]_vars

----------------------------------------------------------------------------
(* The selection calls alone, from any cursor on any token list: they      *)
(* read the list and change nothing.                                       *)

InitSelect ==
    /\ tokens \in SeqsUpTo(Tok, MaxLen + 1)
    /\ operators = DefaultOperators
    /\ this \in {Item(i) : i \in (0 - 1)..Len(tokens)}
    /\ ret = Undefined
    /\ op = [name |-> "constructor", recv |-> TheList, arg |-> Undefined,
             pre |-> tokens]
    /\ input = <<>>
    /\ emitted = <<>>
    /\ lex = [name |-> "idle"]

NextSelect ==
    \/ Select
    \/ SelectPrev
    \/ SelectNext
    \/ ExtendLeft
    \/ ExtendRight

SpecSelect == InitSelect /\ [][NextSelect]_vars

----------------------------------------------------------------------------
(* Iterating over the occurrences of a token in a list that is not         *)
(* modified: c = find(t), then c = c.next(t) while c is not null. lex      *)
(* keeps the token looked for and the indices of the cursors obtained so   *)
(* far; the loop is followed for one call more than the list is long.      *)

InitIterate ==
    /\ tokens \in SeqsUpTo(Tok, MaxLen)
    /\ operators = DefaultOperators
    /\ this = TheList
    /\ ret = Undefined
    /\ op = [name |-> "constructor", recv |-> TheList, arg |-> Undefined,
             pre |-> tokens]
    /\ input = <<>>
    /\ emitted = <<>>
    /\ lex = [name |-> "idle"]

Visit(visited, c) == IF c.kind = "item" THEN Append(visited, c.index) ELSE visited

IterateFind ==
    \E value \in Tok, isCaseSensitive \in BOOLEAN :
        /\ lex.name = "idle"
        /\ op' = Call("findToken", TheList,
                      [value |-> value, isCaseSensitive |-> isCaseSensitive,
                       startIdx |-> 0])
        /\ ret' = findToken(tokens, value, isCaseSensitive, 0)
        /\ this' = TheList
        /\ lex' = [name |-> "iterating", value |-> value,
                   isCaseSensitive |-> isCaseSensitive,
                   visited |-> Visit(<<>>, ret'), calls |-> 0]
        /\ UNCHANGED <<tokens, operators, input, emitted>>

IterateNext ==
    /\ lex.name = "iterating"
    /\ ret.kind = "item"
    /\ lex.calls <= Len(tokens)
    /\ LET outcome == next(tokens, ret.index, Text(lex.value),
                           lex.isCaseSensitive)
       IN  /\ op' = Call("next", ret,
                         [token |-> Text(lex.value),
                          isCaseSensitive |-> lex.isCaseSensitive])
           /\ tokens' = outcome.tokens
           /\ this' = outcome.this
           /\ ret' = outcome.ret
           /\ lex' = [lex EXCEPT !.visited = Visit(@, outcome.ret),
                                 !.calls = @ + 1]
    /\ UNCHANGED <<operators, input, emitted>>

NextIterate ==
    \/ IterateFind
    \/ IterateNext

SpecIterate == InitIterate /\ [][NextIterate]_vars

----------------------------------------------------------------------------
(* What the claims speak of.                                               *)

(* The last call was made on a cursor that was in bounds.                  *)
ItemInBounds == 0 <= op.recv.index /\ op.recv.index < Len(op.pre)
RangeInBounds ==
    /\ 0 <= op.recv.startIndex
    /\ op.recv.startIndex <= op.recv.endIndex
    /\ op.recv.endIndex <= Len(op.pre)

(* The last call was a replace or an insert on an in-bounds cursor.        *)
ItemMutation ==
    op.name \in {"replace", "insertBefore", "insertAfter"} /\ ItemInBounds
RangeMutation == op.name = "rangeReplace" /\ RangeInBounds

(* The index at which the last mutation spliced.                           *)
MutationIndex ==
    CASE op.name = "rangeReplace" -> op.recv.startIndex
      [] op.name = "insertAfter" -> op.recv.index + 1
      [] OTHER -> op.recv.index

(* The non-empty tokens the last mutation was given, in order: the array's *)
(* non-empty entries, the tokens of the string, or those of what the       *)
(* function returned for the tokens it replaces.                           *)
RECURSIVE NonEmpty(_)
NonEmpty(arr) ==
    IF arr = <<>> THEN <<>>
    ELSE IF Head(arr) = "" THEN NonEmpty(Tail(arr))
    ELSE <<Head(arr)>> \o NonEmpty(Tail(arr))

Replaced ==
    IF op.name = "rangeReplace"
    THEN [j \in 1..(op.recv.endIndex - op.recv.startIndex) |->
              op.pre[op.recv.startIndex + j]]
    ELSE <<op.pre[op.recv.index + 1]>>

Given ==
    LET a == op.arg
    IN  CASE a.kind = "array" -> NonEmpty(a.items)
          [] a.kind = "string" -> IF a.prims = <<"<", "=">> THEN <<"<=">> ELSE <<>>
          [] a.kind = "function" /\ a.f = "keep" -> Replaced
          [] a.kind = "function" /\ a.f = "const" -> <<"<=">>
          [] a.kind = "function" /\ a.f = "text" -> <<"<=">>
          [] a.kind = "function" /\ a.f = "push" -> <<"<=">>
          [] a.kind = "function" /\ a.f = "overwrite" ->
                 [j \in 1..Len(Replaced) |-> "<="]
          [] OTHER -> <<>>

(* The tokens of toks at the 0-based indices from..to-1.                   *)
Tokens(toks, from, to) == [j \in 1..(to - from) |-> toks[from + j]]

----------------------------------------------------------------------------
(* C1: a replace or insert on an in-bounds cursor that returns a range     *)
(* returns the span of the inserted tokens: it starts at the mutation      *)
(* index, ends at that index plus the number of non-empty tokens given,    *)
(* and the tokens of the list in it are the tokens given.                  *)
C1_MutationReturnsInsertedSpan ==
    ((ItemMutation \/ RangeMutation) /\ ret.kind = "range") =>
        /\ ret.startIndex = MutationIndex
        /\ ret.endIndex = MutationIndex + Len(Given)
        /\ ret.endIndex <= Len(tokens)
        /\ Tokens(tokens, ret.startIndex, ret.endIndex) = Given

(* C2: a range returned by a call on an in-bounds cursor has               *)
(* startIndex <= endIndex.                                                 *)
C2_RangeStartNotAfterEnd ==
    (/\ ret.kind = "range"
     /\ \/ op.recv.kind = "item" /\ ItemInBounds
        \/ op.recv.kind = "range" /\ RangeInBounds)
        => ret.startIndex <= ret.endIndex

(* The 0-based indices from startIdx on whose token matches value.         *)
MatchesFrom(toks, value, isCaseSensitive, startIdx) ==
    {i \in startIdx..(Len(toks) - 1) :
        IF isCaseSensitive THEN toks[i + 1] = value
        ELSE \/ toks[i + 1] = value
             \/ {toks[i + 1], value} = {"and", "AND"}}

Least(S) == CHOOSE i \in S : \A j \in S : i <= j

(* C3: findToken returns the cursor at the smallest index >= startIdx      *)
(* whose token matches, and null when there is none.                       *)
C3_FindStartsAtStartIdx ==
    op.name = "findToken" =>
        LET found == MatchesFrom(op.pre, op.arg.value, op.arg.isCaseSensitive,
                                 op.arg.startIdx)
        IN  IF found = {} THEN ret = Null ELSE ret = Item(Least(found))

(* C4: next(token) returns null or a cursor at the first match after the   *)
(* receiver's index, and leaves the receiver's index as it was.            *)
C4_NextTokenIsStrictlyAfter ==
    (op.name = "next" /\ op.arg.token.kind = "text") =>
        LET found == MatchesFrom(op.pre, op.arg.token.text,
                                 op.arg.isCaseSensitive, op.recv.index + 1)
        IN  /\ ret = Null \/ (ret.kind = "item" /\ ret.index > op.recv.index)
            /\ IF found = {} THEN ret = Null ELSE ret = Item(Least(found))
            /\ this = op.recv


(* The tokens, joined by single spaces.                                    *)
RECURSIVE SpaceJoined(_)
SpaceJoined(toks) ==
    IF Len(toks) = 0 THEN ""
    ELSE IF Len(toks) = 1 THEN toks[1]
    ELSE toks[1] \o " " \o SpaceJoined(Tail(toks))

(* C5: replace on an in-bounds item cursor at index i leaves               *)
(* old[0..i) ++ given ++ old(i..len): the length is len - 1 + n, the given *)
(* tokens sit at i..i+n-1, the others keep their order, and toString       *)
(* shows them there.                                                       *)
C5_ReplaceAtIndexSplices ==
    (op.name = "replace" /\ ItemInBounds) =>
        LET i == op.recv.index
            n == Len(Given)
            len == Len(op.pre)
        IN  /\ Len(tokens) = len - 1 + n
            /\ \A j \in 0..(i - 1) : tokens[j + 1] = op.pre[j + 1]
            /\ \A j \in 0..(n - 1) : tokens[i + j + 1] = Given[j + 1]
            /\ \A j \in (i + 1)..(len - 1) : tokens[j + n] = op.pre[j + 1]
            /\ toString(tokens) =
                   SpaceJoined(Tokens(op.pre, 0, i) \o Given
                                   \o Tokens(op.pre, i + 1, len))

C5_Witness ==
    /\ op.name = "replace"
    /\ ItemInBounds
    /\ op.recv.index = 1
    /\ Len(op.pre) = 2
    /\ op.pre[2] = "and"
    /\ Len(Given) = 2
    /\ tokens = <<op.pre[1], "<=", "<=">>

(* C6: insertBefore and insertAfter given an empty array, or a string with *)
(* no tokens, throw and leave the token list and the cursor as they were.  *)
C6_EmptyInsertThrows ==
    (/\ op.name \in {"insertBefore", "insertAfter"}
     /\ op.arg \in {Array(<<>>), String(<<>>)})
        => /\ ret = Thrown
           /\ tokens = op.pre
           /\ this = op.recv

C6_Witness ==
    /\ op.name = "insertBefore"
    /\ op.arg = String(<<>>)
    /\ op.recv = Item(1)
    /\ Len(op.pre) = 2
    /\ ret = Thrown

(* C7: select, selectPrev and selectNext without a predicate return the    *)
(* one-index range at the cursor's index, the index before it and the      *)
(* index after it, or null when that index is outside the list; and        *)
(* replace on a one-index range replaces that one token.                   *)
C7_SelectWithoutPredicateTakesOne ==
    /\ (op.name \in {"select", "selectPrev", "selectNext"} /\ op.arg = Undefined)
           => LET seed == CASE op.name = "select" -> op.recv.index
                            [] op.name = "selectPrev" -> op.recv.index - 1
                            [] OTHER -> op.recv.index + 1
              IN  IF 0 <= seed /\ seed < Len(op.pre)
                  THEN ret = Range(seed, seed + 1)
                  ELSE ret = Null
    /\ (RangeMutation /\ op.recv.endIndex = op.recv.startIndex + 1)
           => tokens = Tokens(op.pre, 0, op.recv.startIndex) \o Given
                           \o Tokens(op.pre, op.recv.endIndex, Len(op.pre))

C7_Witness ==
    /\ op.name = "selectNext"
    /\ op.arg = Undefined
    /\ op.recv = Item(0)
    /\ Len(op.pre) = 3
    /\ ret = Range(1, 2)

(* C8: selectNext with a function predicate on a cursor at index i returns *)
(* the run [i+1, k) on which the predicate holds throughout, k being the   *)
(* list's length or the first index after i where it fails; later tokens   *)
(* that pass are left out; null when i+1 is out of bounds or fails.        *)
C8_SelectNextTakesFirstRun ==
    (op.name = "selectNext" /\ op.arg.kind = "function") =>
        LET start == op.recv.index + 1
            len == Len(op.pre)
            P(j) == op.pre[j + 1] \in op.arg.toks \/ j \in op.arg.idxs
        IN  IF start < 0 \/ start >= len
            THEN ret = Null
            ELSE IF ~P(start)
            THEN ret = Null
            ELSE /\ ret.kind = "range"
                 /\ ret.startIndex = start
                 /\ ret.endIndex > start
                 /\ ret.endIndex <= len
                 /\ \A j \in start..(ret.endIndex - 1) : P(j)
                 /\ ret.endIndex = len \/ ~P(ret.endIndex)

C8_Witness ==
    /\ op.name = "selectNext"
    /\ op.arg = Predicate({"and", "AND"}, {})
    /\ op.recv = Item(0)
    /\ op.pre = <<"<=", "and", "<=", "AND">>
    /\ ret = Range(1, 2)

(* C9: each primitive p arriving after an emitted token q replaces q by    *)
(* q+p when that is a known operator, else by q+' '+p when that is one,    *)
(* else is appended; so the emitted length is the number of primitives     *)
(* less the number of merges, '<' '=' with '<=' known gives the one token  *)
(* '<=', and '<=>' is emitted only by merging '<=' first.                  *)
C9_LexMergesWithPreviousToken ==
    /\ lex.name = "callback" =>
           LET n == Len(lex.before)
               p == lex.token
               q == lex.before[n]
               merged == IF (q \o p) \in operators THEN q \o p ELSE q \o " " \o p
           IN  IF n > 0 /\ merged \in operators
               THEN /\ Len(emitted) = n
                    /\ emitted[n] = merged
                    /\ \A j \in 1..(n - 1) : emitted[j] = lex.before[j]
               ELSE /\ Len(emitted) = n + 1
                    /\ emitted[n + 1] = p
                    /\ \A j \in 1..n : emitted[j] = lex.before[j]
    /\ lex.name \in {"callback", "constructed"} =>
           Len(emitted) = lex.delivered - lex.merges
    /\ (lex.name = "constructed" /\ lex.raw = <<"<", "=">> /\ "<=" \in operators)
           => tokens = <<"<=">>
    /\ \A j \in 1..Len(emitted) :
           emitted[j] = "<=>" => ("<=" \in operators /\ lex.merges >= 2)

C9_Witness ==
    /\ lex.name = "constructed"
    /\ lex.raw = <<"<", "=", ">">>
    /\ tokens = <<"<=>">>
    /\ lex.merges = 2

(* C10: findToken from the start of the list matches a token that equals   *)
(* the value after case folding of both when isCaseSensitive is false (the *)
(* default), and only a token identical to the value when it is true.      *)
C10_FindFoldsCaseUnlessSensitive ==
    (op.name = "findToken" /\ op.arg.startIdx = 0) =>
        LET found == MatchesFrom(op.pre, op.arg.value, op.arg.isCaseSensitive, 0)
        IN  IF found = {} THEN ret = Null ELSE ret = Item(Least(found))

C10_Witness ==
    /\ op.name = "findToken"
    /\ op.arg = [value |-> "AND", isCaseSensitive |-> FALSE, startIdx |-> 0]
    /\ op.pre = <<"<=", "and", "AND">>
    /\ ret = Item(1)


(* C11: a replace given a function leaves a token list determined by the   *)
(* list before the call and by what the function returned, whatever the    *)
(* function did to the array it was handed (overwritten, pushed to or      *)
(* emptied it): old tokens before the cursor, the returned tokens, old     *)
(* tokens after the cursor.                                                *)
C11_CallbackCannotTouchTheList ==
    (/\ op.name \in {"replace", "rangeReplace"}
     /\ op.arg.kind = "function"
     /\ \/ op.name = "replace" /\ ItemInBounds
        \/ op.name = "rangeReplace" /\ RangeInBounds)
        => LET from == MutationIndex
               to == IF op.name = "replace" THEN from + 1 ELSE op.recv.endIndex
           IN  tokens = Tokens(op.pre, 0, from) \o Given
                            \o Tokens(op.pre, to, Len(op.pre))

C11_Witness ==
    /\ op.name = "rangeReplace"
    /\ op.arg = Function("push")
    /\ op.recv = Range(1, 2)
    /\ op.pre = <<"and", "AND", "and">>
    /\ tokens = <<"and", "<=", "and">>


(* No two adjacent tokens combine, with or without a space, into a known   *)
(* operator.                                                               *)
NoAdjacentOperator(toks) ==
    \A j \in 1..(Len(toks) - 1) :
        /\ (toks[j] \o toks[j + 1]) \notin operators
        /\ (toks[j] \o " " \o toks[j + 1]) \notin operators

(* C12 as stated: for a list of non-empty tokens no two adjacent of which  *)
(* combine into a known operator, the list constructed from the tokens     *)
(* joined by single spaces, and the one constructed from its toString,     *)
(* are the given list, and toString is the joined string.                  *)
C12_RoundTripOfAnyTokens ==
    (lex.name = "constructed" /\ NoAdjacentOperator(lex.given)) =>
        /\ tokens = lex.given
        /\ toString(tokens) = SpaceJoined(lex.given)
        /\ lex.pass = 2 => ret = Text(SpaceJoined(lex.given))

(* C12 amended: the same, for lists that the character-level tokenizer     *)
(* splits back into exactly the given tokens.                              *)
C12_RoundTripOfPrimitives ==
    (/\ lex.name = "constructed"
     /\ tokenizeThis(lex.given) = lex.given
     /\ NoAdjacentOperator(lex.given))
        => /\ tokens = lex.given
           /\ toString(tokens) = SpaceJoined(lex.given)
           /\ lex.pass = 2 => ret = Text(SpaceJoined(lex.given))

C12_Witness ==
    /\ lex.name = "constructed"
    /\ lex.pass = 2
    /\ "<=" \in operators
    /\ lex.given = <<"=", "<", "not">>
    /\ tokens = lex.given


(* C13: when a range [s, e) of a list T is replaced by a non-empty X and   *)
(* the range that replace returned is replaced by a non-empty Y, the list  *)
(* is T[0..s) ++ Y ++ T[e..len).                                           *)
C13_ChainedReplaceComposes ==
    (/\ op.name = "rangeReplace"
     /\ op.from.kind = "replaced"
     /\ op.arg.kind = "array"
     /\ NonEmpty(op.arg.items) # <<>>)
        => tokens = Tokens(op.from.pre, 0, op.from.startIndex)
                        \o NonEmpty(op.arg.items)
                        \o Tokens(op.from.pre, op.from.endIndex, Len(op.from.pre))


(* C14: replacing the in-bounds range [s, e) by n tokens, or inserting n   *)
(* tokens at an in-bounds index (s = e), n > 0, leaves every token before  *)
(* s where it was, moves every token at j >= e to j + n - (e - s), puts    *)
(* the n tokens at s.. in order, and changes the length by n - (e - s).    *)
C14_SpliceShiftsTheTail ==
    LET s == MutationIndex
        e == IF op.name = "rangeReplace" THEN op.recv.endIndex ELSE s
        n == Len(Given)
        delta == n - (e - s)
    IN  (/\ op.name \in {"rangeReplace", "insertBefore", "insertAfter"}
         /\ 0 <= s /\ s <= e /\ e <= Len(op.pre)
         /\ n > 0)
            => /\ Len(tokens) = Len(op.pre) + delta
               /\ \A j \in 0..(s - 1) : tokens[j + 1] = op.pre[j + 1]
               /\ \A j \in e..(Len(op.pre) - 1) :
                      tokens[j + delta + 1] = op.pre[j + 1]
               /\ \A j \in 0..(n - 1) : tokens[s + j + 1] = Given[j + 1]

C14_Witness ==
    /\ op.name = "insertAfter"
    /\ op.recv = Item(0)
    /\ op.arg = Array(<<"<=">>)
    /\ op.pre = <<"and", "AND">>
    /\ tokens = <<"and", "<=", "AND">>


(* The function predicate of the last call holds at the 0-based index j.   *)
Holds(j) == op.pre[j + 1] \in op.arg.toks \/ j \in op.arg.idxs

(* C15: extendLeft with a function predicate on a range (s, e) leaves the  *)
(* range as it was and returns null exactly when s is out of bounds or the *)
(* predicate fails at s; otherwise it returns the range (s', e) with       *)
(* 0 <= s' <= s, the predicate holding on all of s'..s, and s' = 0 or the  *)
(* predicate failing at s' - 1.                                            *)
C15_ExtendLeftGrowsToTheLeft ==
    (op.name = "extendLeft" /\ op.arg.kind = "function") =>
        LET s == op.recv.startIndex
            e == op.recv.endIndex
            len == Len(op.pre)
        IN  /\ this = op.recv
            /\ ret.kind \in {"null", "range"}
            /\ ret.kind = "null" <=> (s < 0 \/ s >= len \/ ~Holds(s))
            /\ ret.kind = "range" =>
                   /\ ret.endIndex = e
                   /\ 0 <= ret.startIndex /\ ret.startIndex <= s
                   /\ \A j \in ret.startIndex..s : Holds(j)
                   /\ ret.startIndex = 0 \/ ~Holds(ret.startIndex - 1)

C15_Witness ==
    /\ op.name = "extendLeft"
    /\ op.arg = Predicate({"and", "AND"}, {})
    /\ op.recv = Range(1, 3)
    /\ op.pre = <<"and", "AND", "and">>
    /\ this = Range(1, 3)
    /\ ret = Range(0, 3)

(* C16: extendRight with a function predicate on a range (s, e) leaves the *)
(* range as it was and returns null exactly when e is the list's length    *)
(* (or otherwise no index of the list) or the predicate fails at e;        *)
(* otherwise it returns the range (s, e') with e < e' <= length, the       *)
(* predicate holding on all of e..e'-1, and e' the length or the predicate *)
(* failing at e'.                                                          *)
C16_ExtendRightGrowsToTheRight ==
    (op.name = "extendRight" /\ op.arg.kind = "function") =>
        LET s == op.recv.startIndex
            e == op.recv.endIndex
            len == Len(op.pre)
        IN  /\ this = op.recv
            /\ ret.kind \in {"null", "range"}
            /\ ret.kind = "null" <=> (e < 0 \/ e >= len \/ ~Holds(e))
            /\ ret.kind = "range" =>
                   /\ ret.startIndex = s
                   /\ e < ret.endIndex /\ ret.endIndex <= len
                   /\ \A j \in e..(ret.endIndex - 1) : Holds(j)
                   /\ ret.endIndex = len \/ ~Holds(ret.endIndex)

C16_Witness ==
    /\ op.name = "extendRight"
    /\ op.arg = Predicate({"and", "AND"}, {})
    /\ op.recv = Range(0, 1)
    /\ op.pre = <<"and", "AND", "<=">>
    /\ this = Range(0, 1)
    /\ ret = Range(0, 2)


(* What the last selection call returns for the predicate `until`.         *)
Selected(until) ==
    CASE op.name = "select" -> select(op.pre, op.recv.index, until)
      [] op.name = "selectPrev" -> selectPrev(op.pre, op.recv.index, until)
      [] op.name = "selectNext" -> selectNext(op.pre, op.recv.index, until)
      [] op.name = "extendLeft" ->
             extendLeft(op.pre, op.recv.startIndex, op.recv.endIndex, until)
      [] op.name = "extendRight" ->
             extendRight(op.pre, op.recv.startIndex, op.recv.endIndex, until)

SelectionNames ==
    {"select", "selectPrev", "selectNext", "extendLeft", "extendRight"}

(* C17: a selection call (select, selectPrev, selectNext, extendLeft,      *)
(* extendRight) given a string s returns what the same call returns for    *)
(* the function t => t === s.                                              *)
C17_StringPredicateIsEquality ==
    (op.name \in SelectionNames /\ op.arg.kind = "string")
        => ret = Selected(Predicate({op.arg.value}, {}))


(* C18: a selection call (select, selectPrev, selectNext, extendLeft,      *)
(* extendRight) given a predicate that is neither absent, a string nor a   *)
(* function throws at every cursor position, the ends of the list          *)
(* included, and leaves the list as it was.                                *)
C18_UnsupportedPredicateThrows ==
    (op.name \in SelectionNames /\ op.arg = NumberPredicate)
        => ret = Thrown /\ tokens = op.pre


(* The calls that only read, next(token) apart.                            *)
ReadNames ==
    SelectionNames \cup {"token", "peek", "findToken", "first", "last",
                         "toString", "rangeFirst", "rangeLast"}

MutationNames == {"replace", "insertBefore", "insertAfter", "rangeReplace"}

(* The last call was next() without a token.                               *)
Advanced == op.name = "next" /\ isNil(op.arg.token)

(* C19: token, peek, find, next(token), the five selection calls, first,   *)
(* last and toString leave the token list and the cursor they are called   *)
(* on as they were; next() without a token leaves the list, adds one to    *)
(* the index of its cursor and returns that cursor; a cursor's coordinates *)
(* change in no other call, and the list changes only in replace,          *)
(* insertBefore and insertAfter.                                           *)
C19_OnlyNextMovesOnlyEditsWrite ==
    /\ (op.name \in ReadNames \/ (op.name = "next" /\ ~isNil(op.arg.token)))
           => tokens = op.pre /\ this = op.recv
    /\ Advanced
           => /\ tokens = op.pre
              /\ this = Item(op.recv.index + 1)
              /\ ret = this
    /\ op.name \in MutationNames => this = op.recv
    /\ tokens # op.pre => op.name \in MutationNames
    /\ op.name \in ReadNames \cup MutationNames \cup {"next", "constructor"}

C19_Witness ==
    /\ Advanced
    /\ op.recv = Item(1)
    /\ op.pre = <<"and", "<=", "AND">>
    /\ tokens = op.pre
    /\ this = Item(2)
    /\ ret = Item(2)


(* C20: in the loop c = find(t); while c is not null, c = c.next(t) over   *)
(* a list that is not modified, the indices of the cursors obtained are    *)
(* strictly increasing and are indices whose token matches t, c.next(t)    *)
(* is called at most as many times as the list is long, and when c is      *)
(* null the indices obtained are exactly those whose token matches t.      *)
C20_IterationVisitsEachMatchOnce ==
    lex.name = "iterating" =>
        LET visited == lex.visited
            matching == MatchesFrom(tokens, lex.value, lex.isCaseSensitive, 0)
        IN  /\ \A j \in 1..(Len(visited) - 1) : visited[j] < visited[j + 1]
            /\ \A j \in 1..Len(visited) : visited[j] \in matching
            /\ lex.calls <= Len(tokens)
            /\ ret = Null => {visited[j] : j \in 1..Len(visited)} = matching

====
